---- MODULE Spec2Model ----
(***************************************************************************)
(* A model of the Carrier HTTP client (class Carrier).  The repository     *)
(* holds two generations of the class that the properties refer to:        *)
(*   "part_001"   - src/unnamed/part_001: profiles, auth strategies, hooks *)
(*   "carrier.ts" - src/carrier.ts: profiles, implicit token only          *)
(* A client is an instance of one of them (variable build).                *)
(*                                                                         *)
(* JavaScript values are modelled as strings: Undefined and Null are two   *)
(* reserved strings, "" is the empty string.  URLs are sequences of        *)
(* tokens, so that prefix tests, substring tests and concatenation are     *)
(* computed, not assumed.  An async send is split at its two awaits        *)
(* (fetch, response.json()); each synchronous segment is one atomic step,  *)
(* as on a single-threaded event loop.                                     *)
(***************************************************************************)
EXTENDS Integers, Sequences, FiniteSets, TLC

\* ------------------------------------------------------------------ bounds
\* number of send invocations in a behaviour
MaxCalls == 2
\* number of hook registrations (calls of on) in a behaviour
MaxHooks == 2

\* ------------------------------------------------------------- JS values
Undefined == "<undefined>"
Null == "<null>"

\* JavaScript truthiness of a string-or-nullish value: if (v), v || w, !v
Falsy(v) == v \in {Undefined, Null, ""}

\* a || b
OrElse(a, b) == IF Falsy(a) THEN b ELSE a

Builds == {"carrier.ts", "part_001"}

\* ------------------------------------------------------------ input sets
Tokens == {"t1", "t2"}
\* a URL is a sequence of tokens; the scheme prefix, "?" and "&" are tokens of
\* their own
BaseUrls == {<<"http://", "api.dev">>, <<"https://", "api.prod", "/v1">>}
EmptyUrl == <<>>
UndefinedUrl == <<Undefined>>

\* truthiness of a string held as a token sequence
FalsyUrl(u) == u \in {EmptyUrl, UndefinedUrl}

\* globalThis.location?.hostname: absent outside a browser
Hostnames == {Undefined, "localhost", "app.qacore.net", "example.com"}

Methods == {"GET", "POST", "PUT", "DELETE", "PATCH", "HEAD", "OPTIONS"}
LegacyMethods == {"GET", "POST", "PUT", "DELETE"}

HookEvents ==
    {"request", "response", "ok", "error", "get", "post", "put", "delete", "patch"}

\* callbacks a caller may register; the ones in Throwing throw when invoked
Callbacks == {"cbA", "cbB", "cbThrow"}
Throwing == {"cbThrow"}

HeaderNames == {"Content-Type", "Authorization", "X-Api-Key"}
NoHeaders == [h \in HeaderNames |-> Undefined]

NoAuth == [type |-> "none"]
BearerAuth(t) == [type |-> "bearer", token |-> t]
BasicAuth(u, p) == [type |-> "basic", username |-> u, password |-> p]
ApiKeyAuth(k, v, where) == [type |-> "apikey", key |-> k, value |-> v, in |-> where]

AuthConfigs ==
    { BearerAuth("g1"), BasicAuth("user", "pw"),
      ApiKeyAuth("X-Api-Key", "a b", "header"),
      ApiKeyAuth("X-Api-Key", "a b", "query"),
      ApiKeyAuth("k", "v1", "query") }

\* response status codes delivered by the network primitive
StatusCodes == {200, 299, 300, 500}

\* response body texts: not JSON at all, the JSON literals null and 0, an object
BodyTexts == {"<html>", "null", "0", "{\"a\":1}"}

VARIABLES
    build,      \* which generation of the class the client is
    baseUrl,    \* Carrier.baseUrl
    token,      \* Carrier.token
    storage,    \* localStorage item "token" (Null: absent)
    globalAuth, \* Carrier.globalAuth (NoAuth: null)
    hooks,      \* Carrier.hooks: event -> sequence of callbacks
    nHooks,     \* number of calls of on so far
    container,  \* Carrier.container: the response envelope
    pc,         \* per send invocation: idle, fetch, json, resolved, rejected
    resp,       \* per send invocation: the Response its fetch resolved with
    trace,      \* per send invocation: triggers, callback invocations, fetch
    failure,    \* per send invocation: why its promise was rejected
    sent,       \* the latest invocation of the network primitive
    netOrder,   \* send invocations in the order their fetch resolved
    parseOrder, \* send invocations in the order their response.json() settled
    lastError   \* what the latest configureProfiles call threw ("none": returned)

vars ==
    << build, baseUrl, token, storage, globalAuth, hooks, nHooks, container,
       pc, resp, trace, failure, sent, netOrder, parseOrder, lastError >>

configVars == << baseUrl, token, storage, globalAuth >>
callVars == << pc, resp, trace, failure, sent, netOrder, parseOrder >>

Calls == 1..MaxCalls

NoResponse == [status |-> 0, body |-> Undefined]
NothingSent == [call |-> 0]
EmptyContainer == [data |-> Null, status |-> 0, raw |-> 0]

Init ==
    /\ build \in Builds
    /\ baseUrl = EmptyUrl
    /\ token = Null
    /\ storage = Null
    /\ globalAuth = NoAuth
    /\ hooks = [e \in HookEvents |-> <<>>]
    /\ nHooks = 0
    /\ container = EmptyContainer
    /\ pc = [c \in Calls |-> "idle"]
    /\ resp = [c \in Calls |-> NoResponse]
    /\ trace = [c \in Calls |-> <<>>]
    /\ failure = [c \in Calls |-> "none"]
    /\ sent = NothingSent
    /\ netOrder = <<>>
    /\ parseOrder = <<>>
    /\ lastError = <<"none">>

\* ------------------------------------------------- environment resolution
\* String.prototype.includes("qacore") on the modelled hostnames
IncludesQacore(hostname) == hostname \in {"app.qacore.net"}

\* inferEnv: "TypeError" stands for the exception of undefined.includes(...)
inferEnv(hostname) ==
    IF hostname = "localhost" THEN "dev"
    ELSE IF hostname = Undefined THEN "TypeError"
    ELSE IF IncludesQacore(hostname) THEN "qa"
    ELSE "prod"

\* config.profiles[env]: Undefined for a key the mapping does not hold
Lookup(profiles, env) ==
    IF env \in DOMAIN profiles THEN profiles[env] ELSE UndefinedUrl

\* setToken(token): the assignments of the method
setTokenEffect(t) ==
    /\ token' = t
    /\ storage' = t

\* the environment configureProfiles resolves, or "TypeError"
ResolvedEnv(cfg, hostname) ==
    IF Falsy(cfg.env) THEN inferEnv(hostname) ELSE cfg.env

\* what configureProfiles(cfg) throws: "none" when it returns
ProfilesError(cfg, hostname) ==
    LET env == ResolvedEnv(cfg, hostname) IN
    IF env = "TypeError" THEN <<"TypeError">>
    ELSE IF FalsyUrl(Lookup(cfg.profiles, env))
         THEN <<"Error", "No baseUrl found for environment: ", env>>
         ELSE <<"none">>

\* configureProfiles with the token stored before the profile is looked up
configureProfiles_StoreFirst(cfg, hostname) ==
    LET err == ProfilesError(cfg, hostname) IN
    /\ lastError' = err
    /\ IF Falsy(cfg.token)
       THEN UNCHANGED << token, storage >>
       ELSE setTokenEffect(cfg.token)
    /\ IF err # <<"none">>
       THEN UNCHANGED baseUrl
       ELSE baseUrl' = Lookup(cfg.profiles, ResolvedEnv(cfg, hostname))
    /\ UNCHANGED << build, globalAuth, hooks, nHooks, container, callVars >>

\* configureProfiles(config), read on a host named hostname
configureProfiles(cfg, hostname) ==
    LET err == ProfilesError(cfg, hostname) IN
    /\ lastError' = err
    /\ IF err # <<"none">>
       THEN UNCHANGED << baseUrl, token, storage >>
       ELSE /\ baseUrl' = Lookup(cfg.profiles, ResolvedEnv(cfg, hostname))
            /\ IF Falsy(cfg.token)
               THEN UNCHANGED << token, storage >>
               ELSE setTokenEffect(cfg.token)
    /\ UNCHANGED << build, globalAuth, hooks, nHooks, container, callVars >>

\* configure({baseUrl?, token?})
configure(cfg) ==
    /\ baseUrl' = IF FalsyUrl(cfg.baseUrl) THEN baseUrl ELSE cfg.baseUrl
    /\ IF Falsy(cfg.token)
       THEN UNCHANGED << token, storage >>
       ELSE /\ token' = cfg.token
            /\ storage' = cfg.token
    /\ UNCHANGED << build, globalAuth, hooks, nHooks, container, callVars, lastError >>

\* configureBaseUrl(url)
configureBaseUrl(url) ==
    /\ build = "part_001"
    /\ baseUrl' = url
    /\ UNCHANGED << build, token, storage, globalAuth, hooks, nHooks, container,
                    callVars, lastError >>

\* setToken(token)
setToken(t) ==
    /\ setTokenEffect(t)
    /\ UNCHANGED << build, baseUrl, globalAuth, hooks, nHooks, container, callVars,
                    lastError >>

\* configureToken(token)
configureToken(t) ==
    /\ build = "part_001"
    /\ setToken(t)

\* configureAuth that also resets the envelope
configureAuth_ResetEnvelope(auth) ==
    /\ build = "part_001"
    /\ globalAuth' = auth
    /\ container' = EmptyContainer
    /\ UNCHANGED << build, baseUrl, token, storage, hooks, nHooks, callVars, lastError >>

\* configureAuth(auth)
configureAuth(auth) ==
    /\ build = "part_001"
    /\ globalAuth' = auth
    /\ UNCHANGED << build, baseUrl, token, storage, hooks, nHooks, container,
                    callVars, lastError >>

\* on that keeps only the latest callback of an event
on_Replace(event, callback) ==
    /\ build = "part_001"
    /\ nHooks < MaxHooks
    /\ nHooks' = nHooks + 1
    /\ hooks' = [hooks EXCEPT ![event] = <<callback>>]
    /\ UNCHANGED << build, configVars, container, callVars, lastError >>

\* on(event, callback)
on(event, callback) ==
    /\ build = "part_001"
    /\ nHooks < MaxHooks
    /\ nHooks' = nHooks + 1
    /\ hooks' = [hooks EXCEPT ![event] = Append(@, callback)]
    /\ UNCHANGED << build, configVars, container, callVars, lastError >>

\* --------------------------------------------------------------- hooks
\* the callbacks of list that forEach invokes: all of them, or those up to and
\* including the first one that throws (the exception leaves forEach)
RECURSIVE Invoked(_)
Invoked(list) ==
    IF list = <<>> THEN <<>>
    ELSE IF Head(list) \in Throwing THEN <<Head(list)>>
    ELSE <<Head(list)>> \o Invoked(Tail(list))

Throws(list) == \E i \in 1..Len(list) : list[i] \in Throwing

\* trigger(event, ...args): what it adds to the send's trace, and whether an
\* exception leaves it
trigger(event) ==
    LET ran == Invoked(hooks[event]) IN
    [ log |-> <<<<"trigger", event>>>>
                \o [i \in 1..Len(ran) |-> <<"call", ran[i]>>],
      threw |-> Throws(hooks[event]) ]

\* consecutive trigger calls: the first exception ends the sequence
RECURSIVE Fire(_)
Fire(events) ==
    IF events = <<>> THEN [log |-> <<>>, threw |-> FALSE]
    ELSE LET r == trigger(Head(events)) IN
         IF r.threw THEN r
         ELSE LET rest == Fire(Tail(events)) IN
              [log |-> r.log \o rest.log, threw |-> rest.threw]

\* ---------------------------------------------------------------- send
\* the headers send starts from, with the content type whatever the method
DefaultHeaders_Always(method) ==
    [NoHeaders EXCEPT !["Content-Type"] = "application/json"]

\* the headers send starts from
DefaultHeaders(method) ==
    IF method # "GET"
    THEN [NoHeaders EXCEPT !["Content-Type"] = "application/json"]
    ELSE NoHeaders

\* { ...base, ...user }
Overlay(base, user) ==
    [h \in HeaderNames |-> IF user[h] # Undefined THEN user[h] ELSE base[h]]

\* the condition of the implicit bearer-token injection
ImplicitToken(headers, useToken) ==
    /\ useToken # "false"
    /\ ~Falsy(token)
    /\ (build = "part_001" => Falsy(headers["Authorization"]))

\* the headers after the implicit-token step
WithToken(headers, useToken) ==
    IF ImplicitToken(headers, useToken)
    THEN [headers EXCEPT !["Authorization"] = "Bearer " \o token]
    ELSE headers

\* btoa on the modelled credentials
Btoa(text) ==
    CASE text = "user:pw" -> "dXNlcjpwdw=="
      [] OTHER -> "base64(" \o text \o ")"

\* encodeURIComponent on the modelled values
EncodeURIComponent(text) ==
    CASE text = "a b" -> "a%20b"
      [] OTHER -> text

\* String.prototype.includes("?") on a token sequence
IncludesQuery(url) == \E i \in 1..Len(url) : url[i] = "?"

\* applyAuth from its switch on: what the strategy chosen does to the headers
\* and the URL
applyChosen(headers, chosen, url) ==
    CASE chosen.type = "none" -> [headers |-> headers, url |-> url]
      [] chosen.type = "bearer" ->
            [ headers |-> [headers EXCEPT !["Authorization"] = "Bearer " \o chosen.token],
              url |-> url ]
      [] chosen.type = "basic" ->
            [ headers |-> [headers EXCEPT !["Authorization"] =
                              "Basic " \o Btoa(chosen.username \o ":" \o chosen.password)],
              url |-> url ]
      [] chosen.type = "apikey" ->
            IF chosen.in = "header"
            THEN [headers |-> [headers EXCEPT ![chosen.key] = chosen.value], url |-> url]
            ELSE IF chosen.in = "query" /\ ~FalsyUrl(url)
            THEN [ headers |-> headers,
                   url |-> url \o << IF IncludesQuery(url) THEN "&" ELSE "?",
                                     chosen.key \o "=" \o EncodeURIComponent(chosen.value) >> ]
            ELSE [headers |-> headers, url |-> url]

\* applyAuth with the global default applied first and the strategy of the
\* request on top of it
applyAuth_Merge(headers, auth, url) ==
    LET first == applyChosen(headers, globalAuth, url)
    IN applyChosen(first.headers, auth, first.url)

\* applyAuth(headers, auth, url): the headers as mutated and the URL returned
applyAuth(headers, auth, url) ==
    applyChosen(headers, IF auth.type # "none" THEN auth ELSE globalAuth, url)

\* resolveUrl that prefixes the base URL to every request URL
resolveUrl_AlwaysPrefix(requestUrl) == baseUrl \o requestUrl

\* resolveUrl(requestUrl); carrier.ts concatenates without the absolute test
resolveUrl(requestUrl) ==
    LET isAbsolute == /\ Len(requestUrl) > 0
                      /\ Head(requestUrl) \in {"http://", "https://"}
    IN IF build = "part_001" /\ isAbsolute
       THEN requestUrl
       ELSE baseUrl \o requestUrl

\* truthiness of a request payload
FalsyData(d) == d \in {Undefined, Null, "num:0"}

\* JSON.stringify on the modelled payloads
Stringify(d) ==
    CASE d = "obj:{}" -> "{}"
      [] d = "obj:{x:1}" -> "{\"x\":1}"
      [] OTHER -> d

\* the body handed to fetch
RequestBody(method, data) ==
    IF method # "GET" /\ (build = "part_001" => method # "HEAD")
    THEN Stringify(IF FalsyData(data) THEN "obj:{}" ELSE data)
    ELSE Undefined

VerbEvent(method) ==
    CASE method = "GET" -> <<"get">>
      [] method = "POST" -> <<"post">>
      [] method = "PUT" -> <<"put">>
      [] method = "DELETE" -> <<"delete">>
      [] method = "PATCH" -> <<"patch">>
      [] OTHER -> <<>>

\* the events send triggers before the network call
StartEvents(method) ==
    IF build = "part_001" THEN <<"request">> \o VerbEvent(method) ELSE <<>>

\* ok() with the upper limit included
ok_Inclusive == container.status >= 200 /\ container.status <= 300

\* ok()
ok == container.status >= 200 /\ container.status < 300

\* check()
check == ok /\ container.data \notin {Null, Undefined}

\* the events send triggers after the body was read
EndEvents ==
    IF build = "part_001"
    THEN <<"response", IF ok THEN "ok" ELSE "error">>
    ELSE <<>>

\* send(options), up to its first await: fetch is invoked, or a hook threw
SendStart(c, o) ==
    /\ pc[c] = "idle"
    /\ \A d \in Calls : d < c => pc[d] # "idle"
    /\ build = "carrier.ts" => o.method \in LegacyMethods \cup {Undefined}
    /\ LET method == OrElse(o.method, "GET")
           headers == WithToken(Overlay(DefaultHeaders(method), o.headers), o.useToken)
           fired == Fire(StartEvents(method))
           fullUrl == resolveUrl(o.url)
           authed == IF build = "part_001"
                     THEN applyAuth(headers, o.auth, fullUrl)
                     ELSE [headers |-> headers, url |-> fullUrl]
       IN IF fired.threw
          THEN /\ pc' = [pc EXCEPT ![c] = "rejected"]
               /\ failure' = [failure EXCEPT ![c] = "hook"]
               /\ trace' = [trace EXCEPT ![c] = fired.log]
               /\ sent' = sent
          ELSE /\ pc' = [pc EXCEPT ![c] = "fetch"]
               /\ failure' = failure
               /\ trace' = [trace EXCEPT ![c] = fired.log \o << <<"fetch", "">> >>]
               /\ sent' = [ call |-> c,
                            options |-> o,
                            preAuth |-> headers,
                            method |-> method,
                            url |-> authed.url,
                            headers |-> authed.headers,
                            credentials |-> OrElse(o.credentials, "same-origin"),
                            body |-> RequestBody(method, o.data) ]
    /\ UNCHANGED << build, configVars, hooks, nHooks, container, resp, netOrder,
                    parseOrder, lastError >>

\* the fetch of invocation c resolves with a Response: status and raw recorded
FetchResolve(c, status, body) ==
    /\ pc[c] = "fetch"
    /\ pc' = [pc EXCEPT ![c] = "json"]
    /\ resp' = [resp EXCEPT ![c] = [status |-> status, body |-> body]]
    /\ container' = [container EXCEPT !.status = status, !.raw = c]
    /\ netOrder' = Append(netOrder, c)
    /\ UNCHANGED << build, configVars, hooks, nHooks, trace, failure, sent,
                    parseOrder, lastError >>

\* FetchReject with the network call issued once more after its first failure
FetchReject_Retry(c) ==
    /\ pc[c] = "fetch"
    /\ IF Cardinality({i \in 1..Len(trace[c]) : trace[c][i] = <<"fetch", "">>}) < 2
       THEN /\ trace' = [trace EXCEPT ![c] = Append(@, <<"fetch", "">>)]
            /\ UNCHANGED << pc, failure >>
       ELSE /\ pc' = [pc EXCEPT ![c] = "rejected"]
            /\ failure' = [failure EXCEPT ![c] = "transport"]
            /\ UNCHANGED trace
    /\ UNCHANGED << build, configVars, hooks, nHooks, container, resp, sent,
                    netOrder, parseOrder, lastError >>

\* FetchReject that records the failure in the envelope
FetchReject_ClearEnvelope(c) ==
    /\ pc[c] = "fetch"
    /\ pc' = [pc EXCEPT ![c] = "rejected"]
    /\ failure' = [failure EXCEPT ![c] = "transport"]
    /\ container' = EmptyContainer
    /\ UNCHANGED << build, configVars, hooks, nHooks, resp, trace, sent,
                    netOrder, parseOrder, lastError >>

\* the fetch of invocation c rejects: the exception leaves send
FetchReject(c) ==
    /\ pc[c] = "fetch"
    /\ pc' = [pc EXCEPT ![c] = "rejected"]
    /\ failure' = [failure EXCEPT ![c] = "transport"]
    /\ UNCHANGED << build, configVars, hooks, nHooks, container, resp, trace, sent,
                    netOrder, parseOrder, lastError >>

\* Response.json() on the modelled bodies: Undefined stands for a rejection
JsonParse(text) ==
    CASE text = "null" -> Null
      [] text = "0" -> "num:0"
      [] text = "{\"a\":1}" -> "obj:{a:1}"
      [] OTHER -> Undefined

\* JsonSettle that records status and raw together with the data, once the
\* body was read
JsonSettle_RecordAll(c) ==
    /\ pc[c] = "json"
    /\ LET parsed == JsonParse(resp[c].body)
           fired == Fire(EndEvents)
       IN /\ container' = [ data |-> IF parsed = Undefined THEN Null ELSE parsed,
                            status |-> resp[c].status,
                            raw |-> c ]
          /\ trace' = [trace EXCEPT ![c] = @ \o fired.log]
          /\ pc' = [pc EXCEPT ![c] = IF fired.threw THEN "rejected" ELSE "resolved"]
          /\ failure' = [failure EXCEPT ![c] = IF fired.threw THEN "hook" ELSE @]
    /\ parseOrder' = Append(parseOrder, c)
    /\ UNCHANGED << build, configVars, hooks, nHooks, resp, sent, netOrder, lastError >>

\* response.json() of invocation c settles: data recorded, hooks fired, return
JsonSettle(c) ==
    /\ pc[c] = "json"
    /\ LET parsed == JsonParse(resp[c].body)
           fired == Fire(EndEvents)
       IN /\ container' = [container EXCEPT !.data =
                              IF parsed = Undefined THEN Null ELSE parsed]
          /\ trace' = [trace EXCEPT ![c] = @ \o fired.log]
          /\ pc' = [pc EXCEPT ![c] = IF fired.threw THEN "rejected" ELSE "resolved"]
          /\ failure' = [failure EXCEPT ![c] = IF fired.threw THEN "hook" ELSE @]
    /\ parseOrder' = Append(parseOrder, c)
    /\ UNCHANGED << build, configVars, hooks, nHooks, resp, sent, netOrder, lastError >>

\* ------------------------------------------------------- operation inputs
Opt(method, url, data, headers, useToken, credentials, auth) ==
    [ method |-> method, url |-> url, data |-> data, headers |-> headers,
      useToken |-> useToken, credentials |-> credentials, auth |-> auth ]

\* requests that differ in the method only
CoreOptions ==
    { Opt(m, <<"/items">>, Undefined, NoHeaders, Undefined, Undefined, NoAuth) :
        m \in Methods \cup {Undefined} }

Profiles ==
    { [dev |-> <<"http://", "api.dev">>, prod |-> <<"https://", "api.prod", "/v1">>],
      [dev |-> <<"http://", "api.dev">>, qa |-> EmptyUrl] }

ProfileConfigs ==
    [ env : {Undefined, "", "staging", "prod"},
      profiles : Profiles,
      token : {Undefined, "t2"} ]

ConfigureArgs ==
    [ baseUrl : {UndefinedUrl, EmptyUrl, <<"http://", "api.dev">>},
      token : {Undefined, "", "t1"} ]

\* requests that differ in everything send reads
RequestOptions ==
    [ method : {Undefined, "POST", "HEAD"},
      url : { <<"/items">>, <<"/items", "?", "page=2">>,
              <<"https://", "other.org", "/x">>, EmptyUrl },
      data : {Undefined, "num:0", "obj:{x:1}"},
      headers : { NoHeaders,
                  [NoHeaders EXCEPT !["Authorization"] = "Basic abc"],
                  [NoHeaders EXCEPT !["Authorization"] = ""],
                  [NoHeaders EXCEPT !["Content-Type"] = "text/plain"] },
      useToken : {Undefined, "false"},
      credentials : {Undefined, "include"},
      auth : {NoAuth, BearerAuth("r1"), ApiKeyAuth("k", "v1", "query")} ]

\* ------------------------------------------------------------ next state
Register(events, callbacks) ==
    \E e \in events, cb \in callbacks : on(e, cb)

Network(statuses, bodies) ==
    \/ \E c \in Calls, s \in statuses, b \in bodies : FetchResolve(c, s, b)
    \/ \E c \in Calls : FetchReject(c)
    \/ \E c \in Calls : JsonSettle(c)

\* a send is invoked with one of the given options
Send(ids, options) ==
    \E c \in ids : pc[c] = "idle" /\ \E o \in options : SendStart(c, o)

\* no send is suspended at one of its awaits
Quiet == \A c \in Calls : pc[c] \notin {"fetch", "json"}

\* Overlapping sends: up to MaxCalls invocations whose awaits interleave freely,
\* and a throwing callback that may be registered on the response event.
RaceStatuses == {200, 500}
RaceBodies == {"<html>", "{\"a\":1}"}
RaceOptions == {o \in CoreOptions : o.method \in {Undefined, "POST"}}

Next ==
    \/ Register({"response"}, {"cbThrow"})
    \/ Send(Calls, RaceOptions)
    \/ Network(RaceStatuses, RaceBodies)

Spec == Init /\ [][Next]_vars

\* Sends that run alone: a send starts only when none is suspended.  Every
\* status and body; a throwing callback that may be registered on the response
\* event.
NextSequential ==
    \/ Register({"response"}, {"cbThrow"})
    \/ Quiet /\ Send(Calls, RaceOptions)
    \/ Network(StatusCodes, BodyTexts)

SpecSequential == Init /\ [][NextSequential]_vars

\* One send of every method on a client of part_001 whose hooks are registered
\* at any time, before the send or while it is suspended.
InitHooks == Init /\ build = "part_001"

NextHooks ==
    \/ Register(HookEvents, Callbacks)
    \/ Send({1}, CoreOptions)
    \/ Network(RaceStatuses, RaceBodies)

SpecHooks == InitHooks /\ [][NextHooks]_vars

\* Request construction: the client is configured, then one send of any
\* options is issued.
Unsent == sent = NothingSent

NextRequest ==
    \/ Unsent /\ \E cfg \in ConfigureArgs : configure(cfg)
    \/ Unsent /\ \E u \in BaseUrls \cup {EmptyUrl} : configureBaseUrl(u)
    \/ Unsent /\ \E t \in {"", "t1"} : setToken(t)
    \/ Unsent /\ \E a \in AuthConfigs : configureAuth(a)
    \/ Send({1}, RequestOptions)
    \/ Network({200}, {"{\"a\":1}"})

SpecRequest == Init /\ [][NextRequest]_vars

\* Configuration: every configuration operation with every input, in any
\* order, then a send.
NextConfig ==
    \/ Unsent /\ \E cfg \in ProfileConfigs, h \in Hostnames : configureProfiles(cfg, h)
    \/ Unsent /\ \E cfg \in ConfigureArgs : configure(cfg)
    \/ Unsent /\ \E u \in BaseUrls \cup {EmptyUrl} : configureBaseUrl(u)
    \/ Unsent /\ \E t \in Tokens \cup {""} : configureToken(t)
    \/ Unsent /\ \E t \in Tokens \cup {""} : setToken(t)
    \/ Unsent /\ \E a \in {BearerAuth("g1"), ApiKeyAuth("k", "v1", "query")} : configureAuth(a)
    \/ Send({1}, RaceOptions)
    \/ Network({200}, {"{\"a\":1}"})

SpecConfig == Init /\ [][NextConfig]_vars

\* A live client: configuration operations at any time around one send, and
\* callbacks for the events that follow the response, registered once the send
\* was issued: while it is suspended, or after it.
LiveProfile ==
    [ env |-> Undefined,
      profiles |-> [dev |-> <<"http://", "api.dev">>,
                    prod |-> <<"https://", "api.prod", "/v1">>],
      token |-> "t1" ]

NextLive ==
    \/ ~Unsent /\ Register({"response", "ok", "error"}, {"cbA", "cbThrow"})
    \/ configureProfiles(LiveProfile, "example.com")
    \/ configure([baseUrl |-> <<"http://", "api.dev">>, token |-> "t1"])
    \/ configureBaseUrl(<<"http://", "api.dev">>)
    \/ configureToken("t1")
    \/ setToken("t1")
    \/ configureAuth(ApiKeyAuth("k", "v1", "query"))
    \/ Send({1}, RaceOptions)
    \/ Network(RaceStatuses, RaceBodies)

SpecLive == Init /\ [][NextLive]_vars

\* Every method: one send of any method, with and without a payload and a
\* content type of the caller.
MethodOptions ==
    { Opt(m, <<"/items">>, d, h, Undefined, Undefined, NoAuth) :
        m \in Methods \cup {Undefined},
        d \in {Undefined, "num:0", "obj:{x:1}"},
        h \in {NoHeaders, [NoHeaders EXCEPT !["Content-Type"] = "text/plain"]} }

NextMethods ==
    \/ Send({1}, MethodOptions)
    \/ Network({200}, {"{\"a\":1}"})

SpecMethods == Init /\ [][NextMethods]_vars

\* =================================================================
\* Properties
\* =================================================================
\* the entries the current step adds to the trace of invocation c
Added(c) == SubSeq(trace'[c], Len(trace[c]) + 1, Len(trace'[c]))

\* an event fired in full: the trigger, then every callback registered for it,
\* once each, in registration order
InFull(event) ==
    <<<<"trigger", event>>>>
        \o [i \in 1..Len(hooks[event]) |-> <<"call", hooks[event][i]>>]

RECURSIVE AllInFull(_)
AllInFull(events) ==
    IF events = <<>> THEN <<>>
    ELSE InFull(Head(events)) \o AllInFull(Tail(events))

\* the verb-specific event of a method, as the specification lists them
VerbOf(method) ==
    IF method \in {"GET", "POST", "PUT", "DELETE", "PATCH"}
    THEN << [GET |-> "get", POST |-> "post", PUT |-> "put", DELETE |-> "delete",
             PATCH |-> "patch"][method] >>
    ELSE <<>>

\* the classification of a status: success is [200,300)
Classified(status) == IF status \in 200..299 THEN "ok" ELSE "error"

\* the envelope data a response body stands for: the parsed body, null when
\* the body is not JSON
DataOf(body) ==
    CASE body = "null" -> Null
      [] body = "0" -> "num:0"
      [] body = "{\"a\":1}" -> "obj:{a:1}"
      [] OTHER -> Null

Settled(c) == pc[c] \in {"resolved", "rejected"}
Answered(c) == \E i \in 1..Len(netOrder) : netOrder[i] = c
Parsed(c) == \E i \in 1..Len(parseOrder) : parseOrder[i] = c
Last(seq) == seq[Len(seq)]

\* positions of the trigger of event in the trace of invocation c
TriggersOf(c, event) == {i \in 1..Len(trace[c]) : trace[c][i] = <<"trigger", event>>}
FetchesOf(c) == {i \in 1..Len(trace[c]) : trace[c][i] = <<"fetch", "">>}

\* a callback threw during invocation c
ThrewIn(c) ==
    \E i \in 1..Len(trace[c]) : trace[c][i][1] = "call" /\ trace[c][i][2] \in Throwing

\* C1: a send that runs alone fires request, then the verb-specific event,
\* then calls the network, then fires response, then ok or error; each event
\* fired invokes every callback registered for it exactly once, in
\* registration order.
C1_LifecycleOrder ==
    [][ \A c \in Calls :
          /\ (pc[c] = "idle" /\ pc'[c] = "fetch") =>
                Added(c) = AllInFull(<<"request">> \o VerbOf(sent'.method))
                               \o << <<"fetch", "">> >>
          /\ (pc[c] = "json" /\ pc'[c] # "json") =>
                Added(c) = AllInFull(<<"response", Classified(resp[c].status)>>)
      ]_vars

\* C2: every send whose network call returned, overlapping ones included, fires
\* exactly one of ok and error, after response, and it fires ok exactly when
\* the status of its own response is in [200,300).  Stated for the sends in
\* which no callback threw.
C2_OkOrErrorByOwnStatus ==
    \A c \in Calls :
        (build = "part_001" /\ Settled(c) /\ Parsed(c) /\ ~ThrewIn(c)) =>
            /\ Cardinality(TriggersOf(c, "ok") \cup TriggersOf(c, "error")) = 1
            /\ Cardinality(TriggersOf(c, "response")) = 1
            /\ \A i \in TriggersOf(c, "response") :
                   \A j \in TriggersOf(c, "ok") \cup TriggersOf(c, "error") : i < j
            /\ TriggersOf(c, Classified(resp[c].status)) # {}

\* C3: a callback that throws does not change the outcome of the send: the
\* network call is still issued and the send is not rejected by the hook.
C3_HookFailureSwallowed ==
    \A c \in Calls :
        ThrewIn(c) =>
            /\ failure[c] # "hook"
            /\ FetchesOf(c) # {}
            /\ Settled(c) => (pc[c] = "resolved" \/ failure[c] = "transport")

\* C4: with a global bearer strategy configured and no per-request strategy,
\* an Authorization header passed by the caller reaches the network call as
\* the caller gave it.
C4_CallerAuthorizationKept ==
    ( /\ sent.call # 0
      /\ build = "part_001"
      /\ ~Falsy(sent.options.headers["Authorization"])
      /\ sent.options.auth.type = "none"
      /\ globalAuth.type = "bearer" )
        => sent.headers["Authorization"] = sent.options.headers["Authorization"]

\* C5: the token step of send sets Authorization to "Bearer <token>" exactly
\* when useToken is not false, a token is configured and the caller gave no
\* Authorization header; otherwise it leaves the header as the caller gave it.
\* An empty token and an empty header value are read as "none".
C5_ImplicitTokenInjection ==
    sent.call # 0 =>
        LET given == sent.options.headers["Authorization"]
            injected == sent.preAuth["Authorization"] # given
        IN /\ injected <=> ( /\ sent.options.useToken # "false"
                             /\ ~Falsy(token)
                             /\ Falsy(given) )
           /\ injected => sent.preAuth["Authorization"] = "Bearer " \o token

\* the envelope is the response of invocation c
EnvelopeOf(c) ==
    [data |-> DataOf(resp[c].body), status |-> resp[c].status, raw |-> c]

\* C6 as stated: of two overlapping sends, x the one whose network round-trip
\* completed first, the envelope ends as the response of x.
C6_FirstRoundTripWins ==
    \A x, y \in Calls :
        (x # y /\ netOrder = <<x, y>> /\ Quiet) => container = EnvelopeOf(x)

\* C6 amended: of two overlapping sends, y the one whose network round-trip
\* completed last, the envelope ends with the status and raw handle of y, and
\* with the data of the send whose body was read last.
C6_LastRoundTripWins ==
    \A x, y \in Calls :
        (x # y /\ netOrder = <<x, y>> /\ Quiet) =>
            /\ container.status = resp[y].status
            /\ container.raw = y
            /\ container.data = DataOf(resp[Last(parseOrder)].body)

\* the send invoked second completed its round-trip first, with another status
C6_Witness ==
    /\ netOrder = <<2, 1>>
    /\ Quiet
    /\ resp[1].status # resp[2].status
    /\ container.status = resp[1].status
    /\ container.raw = 1

\* C7: once no send is suspended, status, raw and data of the envelope all
\* come from the response of one and the same send.
C7_EnvelopeOfOneCall ==
    (Quiet /\ parseOrder # <<>>) =>
        \E c \in Calls : Parsed(c) /\ container = EnvelopeOf(c)

\* C8: ok() is true exactly when the recorded status is in [200,300), and
\* check() exactly when ok() is true and the recorded data is not null.
C8_OkAndCheck ==
    /\ ok <=> container.status \in 200..299
    /\ check <=> (container.status \in 200..299 /\ container.data # Null)

\* the largest success status with a falsy, non-null body
C8_Witness ==
    /\ container.status = 299
    /\ container.data = "num:0"
    /\ check

\* C9: after a send that ran alone got its response, the envelope holds the
\* parsed body, or null when the body is not JSON, and the status of the
\* response; the send is resolved, ok() follows the status, and response and
\* ok or error were fired.
C9_ParseOutcomeRecorded ==
    \A c \in Calls :
        (Parsed(c) /\ Last(parseOrder) = c /\ Last(netOrder) = c) =>
            /\ container.data = DataOf(resp[c].body)
            /\ container.status = resp[c].status
            /\ ok <=> resp[c].status \in 200..299
            /\ pc[c] = "resolved"
            /\ build = "part_001" =>
                  /\ TriggersOf(c, "response") # {}
                  /\ TriggersOf(c, Classified(resp[c].status)) # {}

\* the resolved environment of a configureProfiles call has no base URL
MissingEnv(cfg, hostname) ==
    /\ ResolvedEnv(cfg, hostname) # "TypeError"
    /\ FalsyUrl(Lookup(cfg.profiles, ResolvedEnv(cfg, hostname)))

\* C10: a configureProfiles call whose resolved environment has no non-empty
\* base URL throws an error naming that environment and leaves base URL,
\* token and credential store as they were; a send never fails for a missing
\* base URL: it goes on to the network call.
C10_ProfilesFailureLeavesState ==
    [][ /\ \A cfg \in ProfileConfigs, h \in Hostnames :
              (configureProfiles(cfg, h) /\ MissingEnv(cfg, h)) =>
                  /\ lastError' = << "Error", "No baseUrl found for environment: ",
                                     ResolvedEnv(cfg, h) >>
                  /\ UNCHANGED << baseUrl, token, storage >>
        /\ \A c \in Calls : (pc[c] = "idle" /\ pc'[c] # "idle") => pc'[c] = "fetch"
      ]_vars

\* a failed configureProfiles after a successful configuration: the earlier
\* base URL and token are still there
C10_Witness ==
    /\ Len(lastError) = 3
    /\ lastError[3] = "staging"
    /\ baseUrl = <<"http://", "api.dev">>
    /\ token = "t1"
    /\ storage = "t1"

\* the tag the Environment Resolver gives a hostname: the local marker, then
\* the qa marker, then the fallback
EnvTag(hostname) ==
    IF hostname = "localhost" THEN "dev"
    ELSE IF hostname \in {"app.qacore.net"} THEN "qa"
    ELSE "prod"

\* C11: configureProfiles resolves the environment as the override when one is
\* given and as the resolver's tag of the runtime hostname otherwise (dev, qa,
\* else prod); it ends in the configuration error for that environment or in
\* success, and on success the base URL is profiles[environment] and a
\* supplied token is the configured token and the stored one.
C11_ProfilesResolution ==
    [][ \A cfg \in ProfileConfigs, h \in Hostnames :
          configureProfiles(cfg, h) =>
              LET env == IF Falsy(cfg.env) THEN EnvTag(h) ELSE cfg.env IN
              /\ lastError' \in { <<"none">>,
                                  <<"Error", "No baseUrl found for environment: ", env>> }
              /\ lastError' = <<"none">> =>
                    /\ baseUrl' = Lookup(cfg.profiles, env)
                    /\ cfg.token # Undefined => (token' = cfg.token /\ storage' = cfg.token)
      ]_vars

\* C12: a send whose network call failed is rejected with the transport
\* failure and has invoked the network primitive exactly once; no send invokes
\* it more than once, and a send is resolved only after its network call
\* returned a response.
C12_TransportFailureRejects ==
    \A c \in Calls :
        /\ Cardinality(FetchesOf(c)) <= 1
        /\ failure[c] = "transport" =>
              /\ pc[c] = "rejected"
              /\ Cardinality(FetchesOf(c)) = 1
              /\ ~Answered(c)
        /\ pc[c] = "resolved" => (Answered(c) /\ failure[c] = "none")

\* the network call of one send failed while the other send went through
C12_Witness ==
    /\ failure[1] = "transport"
    /\ pc[1] = "rejected"
    /\ pc[2] = "resolved"

\* a request path that starts with an absolute-URL scheme prefix
IsAbsolute(path) == Len(path) > 0 /\ Head(path) \in {"http://", "https://"}

\* the request paths and base URLs the properties of resolveUrl range over
PathsOfInterest == {o.url : o \in RequestOptions} \cup BaseUrls

\* seq starts with prefix
StartsWith(seq, prefix) ==
    Len(seq) >= Len(prefix) /\ SubSeq(seq, 1, Len(prefix)) = prefix

\* C13: resolveUrl returns a path that starts with http:// or https://
\* unchanged whatever the base URL is, so that applying it twice equals
\* applying it once and the URL passed to the network call starts with the
\* path itself; every other path is returned as the base URL followed by the
\* path verbatim.
C13_ResolveUrl ==
    build = "part_001" =>
        /\ \A p \in PathsOfInterest :
              /\ IsAbsolute(p) => (resolveUrl(p) = p /\ resolveUrl(resolveUrl(p)) = resolveUrl(p))
              /\ ~IsAbsolute(p) => resolveUrl(p) = baseUrl \o p
        /\ sent.call # 0 =>
              StartsWith(sent.url, IF IsAbsolute(sent.options.url)
                                   THEN sent.options.url
                                   ELSE baseUrl \o sent.options.url)

\* an absolute URL was sent on a client whose base URL is another host
C13_Witness ==
    /\ build = "part_001"
    /\ baseUrl = <<"http://", "api.dev">>
    /\ sent.call # 0
    /\ sent.url = <<"https://", "other.org", "/x">>

\* the auth strategy in effect for the request handed to the network call:
\* the one of the request, else the global default
InEffect == IF sent.options.auth.type # "none" THEN sent.options.auth ELSE globalAuth

\* the resolved URL of the request handed to the network call
ResolvedUrl ==
    IF IsAbsolute(sent.options.url) THEN sent.options.url ELSE baseUrl \o sent.options.url

\* percent-encoding of the modelled values: a space becomes %20
PercentEncoded(value) == IF value = "a b" THEN "a%20b" ELSE value

\* C14: with query-placement API-key auth in effect, the URL given to the
\* network call is the resolved URL followed by ?key=value when the resolved
\* URL has no "?", by &key=value when it has one, the value percent-encoded,
\* the pair appended once; the headers are as they were before the auth step.
C14_QueryApiKey ==
    ( /\ sent.call # 0
      /\ build = "part_001"
      /\ InEffect.type = "apikey"
      /\ InEffect.in = "query" )
        => /\ sent.url = ResolvedUrl \o
                  << IF \E i \in 1..Len(ResolvedUrl) : ResolvedUrl[i] = "?" THEN "&" ELSE "?",
                     InEffect.key \o "=" \o PercentEncoded(InEffect.value) >>
           /\ sent.headers = sent.preAuth

\* C15: the auth step of a send applies the strategy of the request when one
\* is given, else the global default as configureAuth last set it, else none:
\* headers and URL handed to the network call are those of that one strategy
\* applied to the headers and the resolved URL, and are the headers and the
\* resolved URL themselves when there is no strategy.
C15_AuthChoice ==
    (sent.call # 0 /\ build = "part_001") =>
        LET expected == applyChosen(sent.preAuth, InEffect, ResolvedUrl)
        IN /\ sent.headers = expected.headers
           /\ sent.url = expected.url
           /\ InEffect.type = "none" =>
                 (sent.headers = sent.preAuth /\ sent.url = ResolvedUrl)

\* a request with its own bearer strategy on a client whose global default is
\* a query-placement API key: no query parameter, the bearer of the request
C15_Witness ==
    /\ sent.call # 0
    /\ globalAuth.type = "apikey"
    /\ globalAuth.in = "query"
    /\ sent.options.auth.type = "bearer"
    /\ sent.url = <<"/items">>
    /\ sent.headers["Authorization"] = "Bearer r1"

\* C16: in every step, whatever the operation, the callback list of every
\* event stays as it is or gets one callback appended at its end, and at most
\* one event's list changes; a step of a send, hook firings included, changes
\* no list.
C16_HooksAdditive ==
    [][ /\ \A e \in HookEvents :
              /\ StartsWith(hooks'[e], hooks[e])
              /\ Len(hooks'[e]) <= Len(hooks[e]) + 1
        /\ Cardinality({e \in HookEvents : hooks'[e] # hooks[e]}) <= 1
        /\ (callVars' # callVars \/ configVars' # configVars) => hooks' = hooks
      ]_vars

\* a second callback was appended to an event that had fired its first one,
\* on a configured client
C16_Witness ==
    /\ hooks["response"] = <<"cbA", "cbThrow">>
    /\ pc[1] = "resolved"
    /\ \E i \in 1..Len(trace[1]) : trace[1][i] = <<"call", "cbA">>
    /\ ~ThrewIn(1)
    /\ baseUrl # EmptyUrl

\* C17: the request handed to the network call carries the content type the
\* caller gave, else application/json exactly when the method is not GET; it
\* carries a body exactly when the method is neither GET nor HEAD, which is
\* the serialized payload, and {} when the caller gave none.
C17_ContentTypeAndBody ==
    sent.call # 0 =>
        LET given == sent.options.headers["Content-Type"]
            method == IF sent.options.method = Undefined THEN "GET" ELSE sent.options.method
            payload == sent.options.data
        IN /\ sent.method = method
           /\ sent.headers["Content-Type"] =
                 IF given # Undefined THEN given
                 ELSE IF method # "GET" THEN "application/json" ELSE Undefined
           /\ sent.body # Undefined <=> method \notin {"GET", "HEAD"}
           /\ (sent.body # Undefined /\ payload = Undefined) => sent.body = "{}"
           /\ (sent.body # Undefined /\ payload = "obj:{x:1}") => sent.body = "{\"x\":1}"

\* a HEAD request with a payload went out with the default content type and
\* without a body
C17_Witness ==
    /\ sent.call # 0
    /\ sent.method = "HEAD"
    /\ sent.options.data = "obj:{x:1}"
    /\ sent.headers["Content-Type"] = "application/json"
    /\ sent.body = Undefined

\* C18: a configuration operation performed while a send is suspended leaves
\* what that send passed to the network primitive as it was; and when the
\* send goes on after its response, every callback registered by then for
\* response and for ok or error, the ones registered during the suspension
\* included, is invoked.
C18_RequestFixedHooksLive ==
    [][ \A c \in Calls :
          /\ (pc[c] \in {"fetch", "json"} /\ sent.call = c /\ configVars' # configVars) =>
                sent' = sent
          /\ (pc[c] = "json" /\ pc'[c] # "json") =>
                \A e \in {"response", Classified(resp[c].status)} :
                    \A i \in 1..Len(hooks[e]) :
                        \E j \in 1..Len(Added(c)) : Added(c)[j] = <<"call", hooks[e][i]>>
      ]_vars

\* C19: the step in which a send is issued and the step in which its network
\* call fails both leave the envelope as it was; the send fires nothing then,
\* has fired none of response, ok and error, and has fired request and the
\* event of its verb.
C19_TransportFailureLeavesEnvelope ==
    [][ \A c \in Calls :
          /\ (pc[c] = "idle" /\ pc'[c] # "idle") => container' = container
          /\ (pc[c] = "fetch" /\ pc'[c] = "rejected") =>
                /\ failure'[c] = "transport"
                /\ container' = container
                /\ trace'[c] = trace[c]
                /\ \A e \in {"response", "ok", "error"} : TriggersOf(c, e) = {}
                /\ (build = "part_001" /\ sent.call = c) =>
                      \A i \in 1..Len(<<"request">> \o VerbOf(sent.method)) :
                          TriggersOf(c, (<<"request">> \o VerbOf(sent.method))[i]) # {}
      ]_vars

\* the network call of the second send failed after the first one succeeded:
\* the envelope, ok() and check() are those of the first
C19_Witness ==
    /\ build = "part_001"
    /\ pc[1] = "resolved"
    /\ failure[2] = "transport"
    /\ sent.call = 2
    /\ sent.method = "POST"
    /\ container = EnvelopeOf(1)
    /\ check
    /\ TriggersOf(2, "post") # {}

\* C20: a step of a send leaves base URL, token, credential store, global
\* auth strategy and hook registry as they were; a step of a configuration
\* operation or of on leaves the envelope, and with it ok() and check(), as
\* it was.
C20_Frame ==
    [][ /\ callVars' # callVars =>
              UNCHANGED << baseUrl, token, storage, globalAuth, hooks, nHooks, lastError >>
        /\ container' # container =>
              UNCHANGED << baseUrl, token, storage, globalAuth, hooks, nHooks, lastError >>
        /\ (configVars' # configVars \/ hooks' # hooks \/ lastError' # lastError) =>
              /\ container' = container
              /\ ok' = ok
              /\ check' = check
              /\ callVars' = callVars
      ]_vars

\* the client was configured and hooked after its send was issued, and holds
\* the response of that send
C20_Witness ==
    /\ pc[1] = "resolved"
    /\ container = EnvelopeOf(1)
    /\ container.status = 200
    /\ sent.url = <<"/items">>
    /\ baseUrl = <<"http://", "api.dev">>
    /\ token = "t1"
    /\ storage = "t1"
    /\ globalAuth.type = "apikey"
    /\ hooks["ok"] = <<"cbA">>

====
